---- MODULE Spec2Model ----
(***************************************************************************)
(* A model of app.py of the quiz solver: the page renderer                 *)
(* (render_dynamic_page), resource discovery (sniff_related_urls), the     *)
(* CSV aggregation (csv_sum) and the orchestrator (handle_quiz).           *)
(*                                                                         *)
(* Python strings are sequences of one-character strings, so that          *)
(* startswith, "in", lower(), slicing, split and strip are computed on     *)
(* the characters as the interpreter computes them.  Python's None is the  *)
(* empty tuple and a present value v is <<v>>.  print() is a log statement *)
(* and is taken not to fail.                                               *)
(***************************************************************************)
EXTENDS Integers, Sequences, FiniteSets, TLC

VARIABLES
    \* ---- render_dynamic_page(url) ----
    rd_pc,          \* position in render_dynamic_page
    rd_url,         \* its argument
    rd_acquired,    \* build_driver() returned a driver
    rd_live,        \* the browser process of that driver is still running
    rd_quitCalls,   \* number of driver.quit() invocations on that driver
    rd_text,        \* local `text`
    rd_ret,         \* the returned value, <<>> before the return
    \* ---- sniff_related_urls(base, html_text, visible_text) ----
    sn_pc,          \* "idle", "loop", "returned" or "raised"
    base,           \* argument `base`
    raw_urls,       \* local `raw_urls`
    sn_i,           \* number of candidates the for loop has consumed
    unique,         \* local `unique`
    discovered,     \* local `discovered`, in insertion order
    fetchLog,       \* history: one record per requests.get call
    sn_last,        \* history: the latest run of the try statement of line 102
    renderLog,      \* history: the URLs passed to render_dynamic_page
    \* ---- handle_quiz(url) ----
    hq_pc,          \* position in handle_quiz
    hq_renderFailed,\* the inline render raised
    page_text,      \* local `page_text`
    assets,         \* local `assets`
    cutoff_val,     \* local `cutoff_val`
    precomputed,    \* local `precomputed`
    hq_k,           \* number of items the aggregation loop has consumed
    appendix        \* local `appendix`, as the list of its sections

rdVars == <<rd_pc, rd_url, rd_acquired, rd_live, rd_quitCalls, rd_text, rd_ret>>
snVars == <<sn_pc, base, raw_urls, sn_i, unique, discovered, fetchLog, sn_last,
           renderLog>>
hqVars == <<hq_pc, hq_renderFailed, page_text, assets, cutoff_val,
            precomputed, hq_k, appendix>>
vars == <<rdVars, snVars, hqVars>>

None == <<>>
Some(v) == <<v>>

-----------------------------------------------------------------------------
(* Strings *)

Min(a, b) == IF a < b THEN a ELSE b

\* s[:n]
Take(s, n) == SubSeq(s, 1, Min(n, Len(s)))

\* s[n:]
Drop(s, n) == SubSeq(s, Min(n, Len(s)) + 1, Len(s))

\* s.startswith(p)
StartsWith(s, p) == Len(p) <= Len(s) /\ SubSeq(s, 1, Len(p)) = p

\* p in s
Contains(s, p) ==
    \E i \in 0..(Len(s) - Len(p)) : \A j \in 1..Len(p) : s[i + j] = p[j]

UpperAlpha == <<"A","B","C","D","E","F","G","H","I","J","K","L","M",
                "N","O","P","Q","R","S","T","U","V","W","X","Y","Z">>
LowerAlpha == <<"a","b","c","d","e","f","g","h","i","j","k","l","m",
                "n","o","p","q","r","s","t","u","v","w","x","y","z">>

LowerChar(c) ==
    IF \E i \in 1..Len(UpperAlpha) : UpperAlpha[i] = c
    THEN LowerAlpha[CHOOSE i \in 1..Len(UpperAlpha) : UpperAlpha[i] = c]
    ELSE c

\* s.lower()
Lower(s) == SubSeq([i \in 1..Len(s) |-> LowerChar(s[i])], 1, Len(s))

\* n copies of the character c
Rep(c, n) == SubSeq([i \in 1..n |-> c], 1, n)

Digits == <<"0","1","2","3","4","5","6","7","8","9">>

\* ch.isdigit(), and the regex class \d, on ASCII
IsDigit(c) == \E i \in 1..Len(Digits) : Digits[i] = c

DigitVal(c) == (CHOOSE i \in 1..Len(Digits) : Digits[i] = c) - 1

\* int(s) of a nonempty string of digits
RECURSIVE IntOf(_)
IntOf(s) ==
    IF Len(s) = 0 THEN 0
    ELSE 10 * IntOf(SubSeq(s, 1, Len(s) - 1)) + DigitVal(s[Len(s)])

\* The sequences of length at most n over the elements of S
SeqsUpTo(S, n) == UNION {[1..k -> S] : k \in 0..n}

-----------------------------------------------------------------------------
(* render_dynamic_page *)

S_empty == <<>>
S_ok == <<"o","k">>

\* Target URLs
Url_q == <<"h","t","t","p",":","/","/","h","/","q">>
Url_dq == <<"h","t","t","p",":","/","/","h","/","d","/","q">>
Url_Sq == <<"h","t","t","p",":","/","/","h","/","S","u","b","m","i","t","/","q">>
Urls == {Url_q, Url_dq, Url_Sq}

\* Visible body texts a rendered page may have
BodyTexts == {S_empty, S_ok, <<"4","2">>, <<"<","p",">">>}

\* Line 46: build_driver() returns a driver; a browser process now runs.
RD_BuildDriver ==
    /\ rd_pc = "call"
    /\ rd_acquired' = TRUE
    /\ rd_live' = TRUE
    /\ rd_pc' = "get"
    /\ UNCHANGED <<snVars, hqVars, rd_url, rd_quitCalls, rd_text, rd_ret>>

\* Line 46: webdriver.Chrome raises; the call is outside the try statement,
\* so the exception leaves render_dynamic_page.
RD_BuildDriverRaises ==
    /\ rd_pc = "call"
    /\ rd_pc' = "raised"
    /\ UNCHANGED <<snVars, hqVars, rd_url, rd_acquired, rd_live, rd_quitCalls, rd_text, rd_ret>>

\* Lines 49-50: driver.get(url), then the fixed sleep.
RD_Get ==
    /\ rd_pc = "get"
    /\ rd_pc' = "text"
    /\ UNCHANGED <<snVars, hqVars, rd_url, rd_acquired, rd_live, rd_quitCalls, rd_text, rd_ret>>

\* Line 49: driver.get raises (navigation error, timeout, driver crash).
RD_GetRaises ==
    /\ rd_pc = "get"
    /\ rd_pc' = "except"
    /\ UNCHANGED <<snVars, hqVars, rd_url, rd_acquired, rd_live, rd_quitCalls, rd_text, rd_ret>>

\* Line 51: text = driver.find_element(By.TAG_NAME, "body").text
RD_BodyText ==
    /\ rd_pc = "text"
    /\ \E t \in BodyTexts : rd_text' = t
    /\ rd_pc' = "quit"
    /\ UNCHANGED <<snVars, hqVars, rd_url, rd_acquired, rd_live, rd_quitCalls, rd_ret>>

\* Line 51: find_element raises.
RD_BodyTextRaises ==
    /\ rd_pc = "text"
    /\ rd_pc' = "except"
    /\ UNCHANGED <<snVars, hqVars, rd_url, rd_acquired, rd_live, rd_quitCalls, rd_text, rd_ret>>

\* Line 52: driver.quit() succeeds.
RD_Quit ==
    /\ rd_pc = "quit"
    /\ rd_quitCalls' = rd_quitCalls + 1
    /\ rd_live' = FALSE
    /\ rd_pc' = "preview"
    /\ UNCHANGED <<snVars, hqVars, rd_url, rd_acquired, rd_text, rd_ret>>

\* Line 52: driver.quit() raises; the browser process may or may not be gone.
RD_QuitRaises ==
    /\ rd_pc = "quit"
    /\ rd_quitCalls' = rd_quitCalls + 1
    /\ \E alive \in BOOLEAN : rd_live' = alive
    /\ rd_pc' = "except"
    /\ UNCHANGED <<snVars, hqVars, rd_url, rd_acquired, rd_text, rd_ret>>

\* Lines 53-54: log the preview, return text.
RD_Return ==
    /\ rd_pc = "preview"
    /\ rd_ret' = Some(rd_text)
    /\ rd_pc' = "returned"
    /\ UNCHANGED <<snVars, hqVars, rd_url, rd_acquired, rd_live, rd_quitCalls, rd_text>>

\* Lines 56-60: the handler logs, calls driver.quit() inside its own
\* try/except-pass, and returns "".
RD_ExceptQuit ==
    /\ rd_pc = "except"
    /\ rd_quitCalls' = rd_quitCalls + 1
    /\ rd_live' = FALSE
    /\ rd_ret' = Some(S_empty)
    /\ rd_pc' = "returned"
    /\ UNCHANGED <<snVars, hqVars, rd_url, rd_acquired, rd_text>>

\* Lines 58-60: the handler's driver.quit() raises and `except: pass`
\* swallows it; a browser that was still running may keep running.
RD_ExceptQuitRaises ==
    /\ rd_pc = "except"
    /\ rd_quitCalls' = rd_quitCalls + 1
    /\ \E alive \in BOOLEAN : rd_live' = (rd_live /\ alive)
    /\ rd_ret' = Some(S_empty)
    /\ rd_pc' = "returned"
    /\ UNCHANGED <<snVars, hqVars, rd_url, rd_acquired, rd_text>>

RenderNext ==
    \/ RD_BuildDriver
    \/ RD_BuildDriverRaises
    \/ RD_Get
    \/ RD_GetRaises
    \/ RD_BodyText
    \/ RD_BodyTextRaises
    \/ RD_Quit
    \/ RD_QuitRaises
    \/ RD_Return
    \/ RD_ExceptQuit
    \/ RD_ExceptQuitRaises

-----------------------------------------------------------------------------
(* sniff_related_urls *)

S_hash == <<"#">>
S_slash == <<"/">>
S_javascript == <<"j","a","v","a","s","c","r","i","p","t">>
S_http == <<"h","t","t","p">>
S_submit == <<"s","u","b","m","i","t">>
S_script == <<"<","s","c","r","i","p","t">>
S_colonSlashSlash == <<":","/","/">>

\* The stub test of line 107 and the slice of line 111
StubLimit == 600
StoreLimit == 12000

\* Index of the first occurrence of character c in s, 0 when there is none
IndexOf(s, c) ==
    IF \E i \in 1..Len(s) : s[i] = c
    THEN CHOOSE i \in 1..Len(s) : s[i] = c /\ \A j \in 1..(i - 1) : s[j] # c
    ELSE 0

\* Index of the last occurrence of character c in s, 0 when there is none
LastIndexOf(s, c) ==
    IF \E i \in 1..Len(s) : s[i] = c
    THEN CHOOSE i \in 1..Len(s) : s[i] = c /\ \A j \in (i + 1)..Len(s) : s[j] # c
    ELSE 0

\* A URL "scheme:..." : the characters before the first ":" are letters, and
\* there is at least one (urlsplit's scheme test, on letters).
IsLetter(c) ==
    \E i \in 1..Len(LowerAlpha) : LowerAlpha[i] = c \/ UpperAlpha[i] = c

HasScheme(u) ==
    LET k == IndexOf(u, ":")
    IN  k > 1 /\ \A j \in 1..(k - 1) : IsLetter(u[j])

\* urlparse(u).scheme
UrlScheme(u) == IF HasScheme(u) THEN Lower(Take(u, IndexOf(u, ":") - 1)) ELSE <<>>

\* What follows "scheme:" (the whole of u when it has no scheme)
AfterScheme(u) == IF HasScheme(u) THEN Drop(u, IndexOf(u, ":")) ELSE u

\* urlparse(u).netloc: after "//", up to the next "/"
UrlNetloc(u) ==
    LET rest == AfterScheme(u)
    IN  IF StartsWith(rest, <<"/","/">>)
        THEN LET r == Drop(rest, 2)
                 k == IndexOf(r, "/")
             IN  IF k = 0 THEN r ELSE Take(r, k - 1)
        ELSE <<>>

\* urlsplit raises ValueError("Invalid IPv6 URL") on a netloc with one
\* bracket and not the other.
BadNetloc(u) ==
    LET n == UrlNetloc(u)
    IN  (IndexOf(n, "[") > 0) # (IndexOf(n, "]") > 0)

\* urljoin(b, link), for the links line 97 passes to it (they do not start
\* with "/", "#" or "http") and that carry no query, fragment or dot
\* segment: a link with a scheme of its own is returned as it is, any other
\* replaces the last segment of b's path.  The result is None when urljoin
\* raises.
urljoin(b, link) ==
    IF BadNetloc(link) THEN None
    ELSE IF HasScheme(link) /\ UrlScheme(link) # UrlScheme(b) THEN Some(link)
    ELSE Some(Take(b, LastIndexOf(b, "/")) \o link)

\* Lines 91-97: the absolute URL of a candidate, None when resolution raises
Resolve(b, link) ==
    IF StartsWith(link, S_slash)
    THEN Some(UrlScheme(b) \o S_colonSlashSlash \o UrlNetloc(b) \o link)
    ELSE IF StartsWith(link, S_http) THEN Some(link)
    ELSE urljoin(b, link)

\* Line 85
IsFragmentOrScript(link) ==
    StartsWith(link, S_hash) \/ StartsWith(link, S_javascript)

\* Line 87 with the membership test lost
AlreadySeenNever(link, seen) == FALSE

\* Line 87
AlreadySeen(link, seen) == link \in seen

\* Line 99 testing the raw candidate in place of the resolved URL
IsSubmitOfRawLink(link, final) == Contains(Lower(link), S_submit)

\* Line 99, of the candidate `link` resolved to `final`
IsSubmit(link, final) == Contains(Lower(final), S_submit)

\* Line 107 with <= for <
IsJsStubAtLimit(body) == Len(body) <= StubLimit /\ Contains(body, S_script)

\* Line 107 (both operands are pure; the length is tested first)
IsJsStub(body) == Len(body) < StubLimit /\ Contains(body, S_script)

\* Line 111, the stored value
Stored(body) == Take(body, StoreLimit)

\* d[key] = value on a dict kept as the list of its items in insertion order
DictSet(d, key, value) ==
    IF \E i \in 1..Len(d) : d[i].key = key
    THEN [i \in 1..Len(d) |-> IF d[i].key = key
                              THEN [key |-> key, value |-> value] ELSE d[i]]
    ELSE Append(d, [key |-> key, value |-> value])

DictHas(d, key) == \E i \in 1..Len(d) : d[i].key = key
DictGet(d, key) == d[CHOOSE i \in 1..Len(d) : d[i].key = key].value

\* Candidate links the extraction patterns of lines 72-81 may yield
L_absPath == <<"/","a",".","c","s","v">>
L_relPath == <<"a",".","c","s","v">>
L_absUrl == <<"h","t","t","p",":","/","/","h","/","b">>
L_submit == <<"/","S","u","b","M","i","t">>
L_fragment == <<"#","t">>
L_script == <<"j","a","v","a","s","c","r","i","p","t",":","x">>
L_badHost == <<"x",":","/","/","[">>
Links == {L_absPath, L_relPath, L_absUrl, L_submit, L_fragment, L_script, L_badHost}

\* Longest candidate list
MaxLinks == 2

\* Base URLs of a discovery pass
SniffBases == {Url_q, Url_Sq}

\* Response bodies: a short table, an error page, a script stub one character
\* under the limit of line 107, a script page at that limit, and a body one
\* character over the slice of line 111
B_table == <<"1",",","2">>
B_notFound == <<"n","f">>
B_stub == S_script \o Rep("x", StubLimit - 1 - Len(S_script))
B_scriptPage == S_script \o Rep("x", StubLimit - Len(S_script))
B_big == Rep("y", StoreLimit + 1)

\* What requests.get may return: res.status_code and res.text
Responses == {
    [status |-> 200, body |-> B_table],
    [status |-> 404, body |-> B_notFound],
    [status |-> 200, body |-> B_stub],
    [status |-> 200, body |-> B_scriptPage],
    [status |-> 200, body |-> B_big] }

\* What render_dynamic_page(final) of line 109 may return: the body text, or
\* "" from its handler
RenderedTexts == {S_empty, S_ok, B_big}

SN_link == raw_urls[sn_i + 1]
SN_final == Resolve(base, SN_link)[1]

\* The loop is at a candidate that passes lines 85-89
SN_AtFresh ==
    /\ sn_pc = "loop"
    /\ sn_i < Len(raw_urls)
    /\ ~IsFragmentOrScript(SN_link)
    /\ ~AlreadySeen(SN_link, unique)

\* ... and lines 91-100 as well, so that the try statement is entered
SN_AtFetch ==
    /\ SN_AtFresh
    /\ Resolve(base, SN_link) # None
    /\ ~IsSubmit(SN_link, SN_final)

\* One requests.get call: the candidate, its URL, the status of the
\* response (0 when the call raised) and whether render_dynamic_page was
\* called for it
LogEntry(status, called) ==
    [raw |-> SN_link, final |-> SN_final, status |-> status, called |-> called]

\* One run of the try statement: the URL, the response body (None when
\* requests.get raised), whether render_dynamic_page was called and what it
\* returned (None when it raised)
TryRun(body, called, rendered) ==
    Some([final |-> SN_final, body |-> body, called |-> called, rendered |-> rendered])

\* Lines 85-86: continue
SN_SkipFragmentOrScript ==
    /\ sn_pc = "loop"
    /\ sn_i < Len(raw_urls)
    /\ IsFragmentOrScript(SN_link)
    /\ sn_i' = sn_i + 1
    /\ UNCHANGED <<rdVars, hqVars, sn_pc, base, raw_urls, unique, discovered, fetchLog, sn_last, renderLog>>

\* Lines 87-88: continue
SN_SkipSeen ==
    /\ sn_pc = "loop"
    /\ sn_i < Len(raw_urls)
    /\ ~IsFragmentOrScript(SN_link)
    /\ AlreadySeen(SN_link, unique)
    /\ sn_i' = sn_i + 1
    /\ UNCHANGED <<rdVars, hqVars, sn_pc, base, raw_urls, unique, discovered, fetchLog, sn_last, renderLog>>

\* Lines 89-97: urljoin raises; no try statement encloses it, so the
\* exception leaves sniff_related_urls and `discovered` is lost.
SN_ResolveRaises ==
    /\ SN_AtFresh
    /\ Resolve(base, SN_link) = None
    /\ unique' = unique \cup {SN_link}
    /\ sn_pc' = "raised"
    /\ UNCHANGED <<rdVars, hqVars, base, raw_urls, sn_i, discovered, fetchLog, sn_last, renderLog>>

\* Lines 89-100: continue
SN_SkipSubmit ==
    /\ SN_AtFresh
    /\ Resolve(base, SN_link) # None
    /\ IsSubmit(SN_link, SN_final)
    /\ unique' = unique \cup {SN_link}
    /\ sn_i' = sn_i + 1
    /\ UNCHANGED <<rdVars, hqVars, sn_pc, base, raw_urls, discovered, fetchLog, sn_last, renderLog>>

\* Lines 102-104 and 114-115: requests.get raises (connection error,
\* timeout); the handler logs and the loop goes on.
SN_GetRaises ==
    /\ SN_AtFetch
    /\ unique' = unique \cup {SN_link}
    /\ fetchLog' = Append(fetchLog, LogEntry(0, FALSE))
    /\ sn_last' = TryRun(None, FALSE, None)
    /\ sn_i' = sn_i + 1
    /\ UNCHANGED <<rdVars, hqVars, sn_pc, base, raw_urls, discovered, renderLog>>

\* Lines 102-112: the response is not a script stub; its text is stored.
SN_FetchStore ==
    /\ SN_AtFetch
    /\ \E r \in Responses :
          /\ ~IsJsStub(r.body)
          /\ fetchLog' = Append(fetchLog, LogEntry(r.status, FALSE))
          /\ sn_last' = TryRun(Some(r.body), FALSE, None)
          /\ discovered' = DictSet(discovered, SN_final, Stored(r.body))
    /\ unique' = unique \cup {SN_link}
    /\ sn_i' = sn_i + 1
    /\ UNCHANGED <<rdVars, hqVars, sn_pc, base, raw_urls, renderLog>>

\* Lines 102-112: the response is a script stub; render_dynamic_page returns
\* and its result is stored.
SN_FetchRender ==
    /\ SN_AtFetch
    /\ \E r \in Responses, t \in RenderedTexts :
          /\ IsJsStub(r.body)
          /\ fetchLog' = Append(fetchLog, LogEntry(r.status, TRUE))
          /\ sn_last' = TryRun(Some(r.body), TRUE, Some(t))
          /\ discovered' = DictSet(discovered, SN_final, Stored(t))
    /\ renderLog' = Append(renderLog, SN_final)
    /\ unique' = unique \cup {SN_link}
    /\ sn_i' = sn_i + 1
    /\ UNCHANGED <<rdVars, hqVars, sn_pc, base, raw_urls>>

\* Lines 102-109 and 114-115: the response is a script stub and
\* render_dynamic_page raises (its build_driver call, line 46); the handler
\* of line 114 logs, nothing is stored and the loop goes on.
SN_FetchRenderRaises ==
    /\ SN_AtFetch
    /\ \E r \in Responses :
          /\ IsJsStub(r.body)
          /\ fetchLog' = Append(fetchLog, LogEntry(r.status, TRUE))
          /\ sn_last' = TryRun(Some(r.body), TRUE, None)
    /\ renderLog' = Append(renderLog, SN_final)
    /\ unique' = unique \cup {SN_link}
    /\ sn_i' = sn_i + 1
    /\ UNCHANGED <<rdVars, hqVars, sn_pc, base, raw_urls, discovered>>

\* Line 117
SN_Return ==
    /\ sn_pc = "loop"
    /\ sn_i = Len(raw_urls)
    /\ sn_pc' = "returned"
    /\ UNCHANGED <<rdVars, hqVars, base, raw_urls, sn_i, unique, discovered, fetchLog, sn_last, renderLog>>

SniffNext ==
    \/ SN_SkipFragmentOrScript
    \/ SN_SkipSeen
    \/ SN_ResolveRaises
    \/ SN_SkipSubmit
    \/ SN_GetRaises
    \/ SN_FetchStore
    \/ SN_FetchRender
    \/ SN_FetchRenderRaises
    \/ SN_Return

-----------------------------------------------------------------------------
(* csv_sum *)

\* The characters str.strip() removes
IsSpace(c) == c \in {" ", "\n", "\t", "\r"}

\* s.strip()
Strip(s) ==
    IF \A i \in 1..Len(s) : IsSpace(s[i]) THEN <<>>
    ELSE LET a == CHOOSE i \in 1..Len(s) :
                     ~IsSpace(s[i]) /\ \A j \in 1..(i - 1) : IsSpace(s[j])
             b == CHOOSE i \in 1..Len(s) :
                     ~IsSpace(s[i]) /\ \A j \in (i + 1)..Len(s) : IsSpace(s[j])
         IN  SubSeq(s, a, b)

\* s.split(sep), sep one character: the list of the pieces
RECURSIVE Split(_, _)
Split(s, sep) ==
    LET k == IndexOf(s, sep)
    IN  IF k = 0 THEN <<s>>
        ELSE <<Take(s, k - 1)>> \o Split(Drop(s, k), sep)

\* float(cell), cell already stripped, for cells written with digits and
\* a sign (no ".", exponent, "_", "inf" or "nan" occurs in the bodies
\* below): None when float raises ValueError
ParseFloat(cell) ==
    LET body == IF Len(cell) > 0 /\ cell[1] \in {"+", "-"} THEN Drop(cell, 1) ELSE cell
    IN  IF Len(body) > 0 /\ \A i \in 1..Len(body) : IsDigit(body[i])
        THEN Some(IF cell[1] = "-" THEN 0 - IntOf(body) ELSE IntOf(body))
        ELSE None

\* Lines 127-133: nums, in order
RECURSIVE CellNums(_)
CellNums(cells) ==
    IF Len(cells) = 0 THEN <<>>
    ELSE ParseFloat(Strip(Head(cells))) \o CellNums(Tail(cells))

RECURSIVE RowNums(_)
RowNums(rows) ==
    IF Len(rows) = 0 THEN <<>>
    ELSE CellNums(Split(Head(rows), ",")) \o RowNums(Tail(rows))

\* Line 136, the test of the comprehension
AboveThreshold(n, threshold) == n > threshold

\* sum(nums)
RECURSIVE SumSeq(_)
SumSeq(nums) == IF Len(nums) = 0 THEN 0 ELSE Head(nums) + SumSeq(Tail(nums))

\* Lines 124-142.  No statement of the try block raises on a str and an
\* int-or-None threshold, so the handler of line 140 is not entered.
csv_sum(data, threshold) ==
    LET nums == RowNums(Split(Strip(data), "\n"))
        kept == IF threshold # None
                THEN SelectSeq(nums, LAMBDA n : AboveThreshold(n, threshold[1]))
                ELSE nums
    IN  Some(SumSeq(kept))

-----------------------------------------------------------------------------
(* handle_quiz *)

S_csv == <<".","c","s","v">>
S_utoff == <<"u","t","o","f","f">>

\* The slice of line 171
DigitWindow == 80

\* The regex classes of line 165
IsCutoffInitial(c) == c \in {"C", "c"}
IsCutoffSep(c) == c \in {":", " "}

\* Length of the longest run of separators (digits) of t that starts at k
SepRun(t, k) ==
    CHOOSE n \in 0..(Len(t) - k + 1) :
        /\ \A j \in 0..(n - 1) : IsCutoffSep(t[k + j])
        /\ (k + n > Len(t) \/ ~IsCutoffSep(t[k + n]))

DigitRun(t, k) ==
    CHOOSE n \in 0..(Len(t) - k + 1) :
        /\ \A j \in 0..(n - 1) : IsDigit(t[k + j])
        /\ (k + n > Len(t) \/ ~IsDigit(t[k + n]))

\* [Cc]utoff[: ]+(\d+) matches t at index i.  The two classes are disjoint,
\* so the match takes the whole run of separators and then needs a digit.
CutoffMatchesAt(t, i) ==
    /\ i + 5 <= Len(t)
    /\ IsCutoffInitial(t[i])
    /\ SubSeq(t, i + 1, i + 5) = S_utoff
    /\ SepRun(t, i + 6) >= 1
    /\ DigitRun(t, i + 6 + SepRun(t, i + 6)) >= 1

\* Lines 164-167: re.search takes the leftmost match, \d+ all its digits
ExtractCutoff(t) ==
    IF \E i \in 1..Len(t) : CutoffMatchesAt(t, i)
    THEN LET i == CHOOSE k \in 1..Len(t) :
                     CutoffMatchesAt(t, k) /\ \A j \in 1..(k - 1) : ~CutoffMatchesAt(t, j)
             d == i + 6 + SepRun(t, i + 6)
         IN  Some(IntOf(SubSeq(t, d, d + DigitRun(t, d) - 1)))
    ELSE None

\* Line 171
Qualifies(link, body) ==
    \/ Contains(link, S_csv)
    \/ \E i \in 1..Len(Take(body, DigitWindow)) : IsDigit(body[i])

\* Lines 171-172 keeping the first qualifying resource
WalkStepFirstWins(pre, link, body, cutoff) ==
    IF Qualifies(link, body) /\ pre = None THEN csv_sum(body, cutoff) ELSE pre

\* Lines 171-172: precomputed after one item of the loop
WalkStep(pre, link, body, cutoff) ==
    IF Qualifies(link, body) THEN csv_sum(body, cutoff) ELSE pre

\* Lines 174-181: the sections of the appendix
BuildAppendix(as, cutoff, pre) ==
    (IF Len(as) > 0 THEN <<[section |-> "RESOURCE DUMP", items |-> as]>> ELSE <<>>)
    \o (IF pre # None
        THEN <<[section |-> "NUMERIC RESULT", cutoff |-> cutoff, sum |-> pre[1]]>>
        ELSE <<>>)

\* Page texts
W_Cutoff == <<"C","u","t","o","f","f">>
W_cutoff == <<"c","u","t","o","f","f">>
W_CUTOFF == <<"C","U","T","O","F","F">>
PageTexts == {
    S_empty,
    S_ok,
    W_Cutoff \o <<":"," ","4","2">>,
    W_cutoff \o <<" ","7">>,
    W_CUTOFF \o <<":"," ","4","2">>,
    W_Cutoff \o <<"4","2">>,
    W_Cutoff \o <<":",":"," ","2","x"," ">> \o W_cutoff \o <<" ","7">>,
    W_cutoff \o <<" ","x"," ">> \o W_Cutoff \o <<":","7">>,
    <<"x">> \o W_cutoff \o <<" ",":","2","5">> }

\* Resolved URLs of resources
K_csv == Url_q \o S_csv
K_b == <<"h","t","t","p",":","/","/","h","/","b">>
K_c == <<"h","t","t","p",":","/","/","h","/","c">>
ResourceKeys == {K_csv, K_b, K_c}

\* Stored bodies: a table, text without a digit, an empty body, a digit
\* right after the window of line 171, a digit inside the window outside any
\* numeric cell, and a table with signs and spaces
A_table == <<"1",",","2","\n","5",",","7">>
A_words == <<"x",",","y">>
A_lateDigit == Rep(" ", DigitWindow) \o <<"5">>
A_code == <<"a","1",",","x">>
A_signed == <<" ","-","1"," ",",","4","2",",","+","2","\n">>
ResourceBodies == {A_table, A_words, S_empty, A_lateDigit, A_code, A_signed}

\* Most resources in a mapping
MaxAssets == 2

\* The mappings sniff_related_urls may return: items in insertion order,
\* with distinct keys
AssetMaps ==
    {m \in SeqsUpTo([key : ResourceKeys, value : ResourceBodies], MaxAssets) :
        \A i, j \in 1..Len(m) : i # j => m[i].key # m[j].key}

HQ_At(pc) == hq_pc = pc

\* Line 151: build_driver() returns a driver.
HQ_BuildDriver ==
    /\ HQ_At("call")
    /\ hq_pc' = "get"
    /\ UNCHANGED <<rdVars, snVars, hq_renderFailed, page_text, assets, cutoff_val,
                   precomputed, hq_k, appendix>>

\* Line 151: webdriver.Chrome raises; the call is outside the try statement,
\* so the exception leaves handle_quiz.
HQ_BuildDriverRaises ==
    /\ HQ_At("call")
    /\ hq_renderFailed' = TRUE
    /\ hq_pc' = "raised"
    /\ UNCHANGED <<rdVars, snVars, page_text, assets, cutoff_val, precomputed, hq_k,
                   appendix>>

\* Lines 154-155
HQ_Get ==
    /\ HQ_At("get")
    /\ hq_pc' = "text"
    /\ UNCHANGED <<rdVars, snVars, hq_renderFailed, page_text, assets, cutoff_val,
                   precomputed, hq_k, appendix>>

\* Line 154: driver.get raises; control leaves the try block of line 153
\* for the clauses that follow it, and no later statement of the block runs.
HQ_GetRaises ==
    /\ HQ_At("get")
    /\ hq_renderFailed' = TRUE
    /\ hq_pc' = "left_try"
    /\ UNCHANGED <<rdVars, snVars, page_text, assets, cutoff_val, precomputed, hq_k,
                   appendix>>

\* Lines 156-157: page_text and page_html
HQ_BodyText ==
    /\ HQ_At("text")
    /\ \E t \in PageTexts : page_text' = t
    /\ hq_pc' = "quit"
    /\ UNCHANGED <<rdVars, snVars, hq_renderFailed, assets, cutoff_val, precomputed,
                   hq_k, appendix>>

\* Line 156: find_element raises.
HQ_BodyTextRaises ==
    /\ HQ_At("text")
    /\ hq_renderFailed' = TRUE
    /\ hq_pc' = "left_try"
    /\ UNCHANGED <<rdVars, snVars, page_text, assets, cutoff_val, precomputed, hq_k,
                   appendix>>

\* Line 158
HQ_Quit ==
    /\ HQ_At("quit")
    /\ hq_pc' = "sniff"
    /\ UNCHANGED <<rdVars, snVars, hq_renderFailed, page_text, assets, cutoff_val,
                   precomputed, hq_k, appendix>>

\* Line 158: driver.quit() raises.
HQ_QuitRaises ==
    /\ HQ_At("quit")
    /\ hq_pc' = "left_try"
    /\ UNCHANGED <<rdVars, snVars, hq_renderFailed, page_text, assets, cutoff_val,
                   precomputed, hq_k, appendix>>

\* Line 162: sniff_related_urls returns a mapping.
HQ_Sniff ==
    /\ HQ_At("sniff")
    /\ \E m \in AssetMaps : assets' = m
    /\ hq_pc' = "cutoff"
    /\ UNCHANGED <<rdVars, snVars, hq_renderFailed, page_text, cutoff_val, precomputed,
                   hq_k, appendix>>

\* Line 162: sniff_related_urls raises (its urljoin call, line 97).
HQ_SniffRaises ==
    /\ HQ_At("sniff")
    /\ hq_pc' = "left_try"
    /\ UNCHANGED <<rdVars, snVars, hq_renderFailed, page_text, assets, cutoff_val,
                   precomputed, hq_k, appendix>>

\* Lines 164-169
HQ_Cutoff ==
    /\ HQ_At("cutoff")
    /\ cutoff_val' = ExtractCutoff(page_text)
    /\ precomputed' = None
    /\ hq_k' = 0
    /\ hq_pc' = "walk"
    /\ UNCHANGED <<rdVars, snVars, hq_renderFailed, page_text, assets, appendix>>

\* Lines 170-172: one item of assets.items()
HQ_Walk ==
    /\ HQ_At("walk")
    /\ hq_k < Len(assets)
    /\ precomputed' = WalkStep(precomputed, assets[hq_k + 1].key,
                               assets[hq_k + 1].value, cutoff_val)
    /\ hq_k' = hq_k + 1
    /\ UNCHANGED <<rdVars, snVars, hq_pc, hq_renderFailed, page_text, assets,
                   cutoff_val, appendix>>

\* Lines 174-181
HQ_Appendix ==
    /\ HQ_At("walk")
    /\ hq_k = Len(assets)
    /\ appendix' = BuildAppendix(assets, cutoff_val, precomputed)
    /\ hq_pc' = "prompt"
    /\ UNCHANGED <<rdVars, snVars, hq_renderFailed, page_text, assets, cutoff_val,
                   precomputed, hq_k>>

\* Lines 183-204: the prompt is built and groq_client is called.
HQ_Dispatch ==
    /\ HQ_At("prompt")
    /\ hq_pc' = "dispatched"
    /\ UNCHANGED <<rdVars, snVars, hq_renderFailed, page_text, assets, cutoff_val,
                   precomputed, hq_k, appendix>>

\* Lines 203-204: the call of the answer service raises.
HQ_DispatchRaises ==
    /\ HQ_At("prompt")
    /\ hq_pc' = "left_try"
    /\ UNCHANGED <<rdVars, snVars, hq_renderFailed, page_text, assets, cutoff_val,
                   precomputed, hq_k, appendix>>

Next ==
    \/ HQ_BuildDriver
    \/ HQ_BuildDriverRaises
    \/ HQ_Get
    \/ HQ_GetRaises
    \/ HQ_BodyText
    \/ HQ_BodyTextRaises
    \/ HQ_Quit
    \/ HQ_QuitRaises
    \/ HQ_Sniff
    \/ HQ_SniffRaises
    \/ HQ_Cutoff
    \/ HQ_Walk
    \/ HQ_Appendix
    \/ HQ_Dispatch
    \/ HQ_DispatchRaises

-----------------------------------------------------------------------------
(* Specifications *)

RenderIdle ==
    /\ rd_pc = "idle"
    /\ rd_url = S_empty
    /\ rd_acquired = FALSE
    /\ rd_live = FALSE
    /\ rd_quitCalls = 0
    /\ rd_text = S_empty
    /\ rd_ret = None

SniffIdle ==
    /\ sn_pc = "idle"
    /\ base = S_empty
    /\ raw_urls = <<>>
    /\ sn_i = 0
    /\ unique = {}
    /\ discovered = <<>>
    /\ fetchLog = <<>>
    /\ sn_last = None
    /\ renderLog = <<>>

QuizIdle ==
    /\ hq_pc = "idle"
    /\ hq_renderFailed = FALSE
    /\ page_text = S_empty
    /\ assets = <<>>
    /\ cutoff_val = None
    /\ precomputed = None
    /\ hq_k = 0
    /\ appendix = <<>>

\* A call render_dynamic_page(url)
RenderInit ==
    /\ rd_pc = "call"
    /\ rd_url \in Urls
    /\ rd_acquired = FALSE
    /\ rd_live = FALSE
    /\ rd_quitCalls = 0
    /\ rd_text = S_empty
    /\ rd_ret = None
    /\ SniffIdle
    /\ QuizIdle

SpecRender == RenderInit /\ [][RenderNext]_vars

\* A call sniff_related_urls(base, html_text, visible_text), after the
\* extraction of lines 69-83
SniffInit ==
    /\ sn_pc = "loop"
    /\ base \in SniffBases
    /\ raw_urls \in SeqsUpTo(Links, MaxLinks)
    /\ sn_i = 0
    /\ unique = {}
    /\ discovered = <<>>
    /\ fetchLog = <<>>
    /\ sn_last = None
    /\ renderLog = <<>>
    /\ RenderIdle
    /\ QuizIdle

SpecSniff == SniffInit /\ [][SniffNext]_vars

\* A call handle_quiz(url)
Init ==
    /\ hq_pc = "call"
    /\ hq_renderFailed = FALSE
    /\ page_text = S_empty
    /\ assets = <<>>
    /\ cutoff_val = None
    /\ precomputed = None
    /\ hq_k = 0
    /\ appendix = <<>>
    /\ RenderIdle
    /\ SniffIdle

Spec == Init /\ [][Next]_vars

-----------------------------------------------------------------------------
(* Properties of render_dynamic_page, under SpecRender *)

RD_Left == rd_pc \in {"returned", "raised"}

\* C1: when a render call has ended, by a return or by an exception, the
\* browser instance build_driver acquired for it has been released
\* (driver.quit) exactly once: not zero times, not twice.
C1_ReleasedExactlyOnce ==
    (RD_Left /\ rd_acquired) => rd_quitCalls = 1

\* C6: render_dynamic_page never raises to its caller; whatever fails, the
\* call ends by returning (the empty string).
C6_NeverRaises == rd_pc # "raised"

-----------------------------------------------------------------------------
(* Properties of sniff_related_urls, under SpecSniff *)

\* Number of occurrences of x in the sequence q
Count(q, x) == Cardinality({i \in 1..Len(q) : q[i] = x})

\* C3: a failure at one candidate never aborts the discovery pass: the call
\* does not end by raising.
C3_PassNeverAborts == sn_pc # "raised"

ClaimIsSubmitUrl(u) == Contains(Lower(u), S_submit)

\* C4: no URL whose lowercase form contains "submit" is requested by GET,
\* passed to the fallback re-render, or a key of the mapping.
C4_NoSubmitUrlTouched ==
    /\ \A i \in 1..Len(fetchLog) : ~ClaimIsSubmitUrl(fetchLog[i].final)
    /\ \A i \in 1..Len(renderLog) : ~ClaimIsSubmitUrl(renderLog[i])
    /\ \A i \in 1..Len(discovered) : ~ClaimIsSubmitUrl(discovered[i].key)

\* A pass has ended in which the relative link a.csv resolved against
\* http://h/Submit/q, a submit URL by the relative branch alone, and another
\* candidate was requested.
C4_Witness ==
    /\ sn_pc = "returned"
    /\ base = Url_Sq
    /\ \E i \in 1..Len(raw_urls) : raw_urls[i] = L_relPath
    /\ L_relPath \in unique
    /\ Len(fetchLog) >= 1

\* C5 as stated: no resolved absolute URL is requested by GET more than once
\* within one call.
C5_NoUrlRequestedTwice ==
    \A i, j \in 1..Len(fetchLog) :
        i # j => fetchLog[i].final # fetchLog[j].final

\* C5 as amended: no raw link string is requested by GET more than once
\* within one call, however often it occurs in the candidate list.
C5_NoRawLinkRequestedTwice ==
    \A i, j \in 1..Len(fetchLog) :
        i # j => fetchLog[i].raw # fetchLog[j].raw

\* A pass has ended whose candidate list held the same fetchable raw link
\* twice, and that link was requested once.
C5_Witness ==
    /\ sn_pc = "returned"
    /\ Len(raw_urls) = 2
    /\ raw_urls[1] = raw_urls[2]
    /\ Len(fetchLog) = 1
    /\ fetchLog[1].raw = raw_urls[2]

\* C7: the mapping holds no key whose GET returned a status other than 200
\* (taking, for a URL requested more than once, its latest GET).
C7_OnlyStatus200Stored ==
    \A i \in 1..Len(fetchLog) :
        ( /\ fetchLog[i].status \notin {0, 200}
          /\ \A j \in (i + 1)..Len(fetchLog) : fetchLog[j].final # fetchLog[i].final )
        => ~DictHas(discovered, fetchLog[i].final)

\* The stub condition as the claim words it
ClaimIsStub(body) == Contains(body, S_script) /\ Len(body) <= StubLimit - 1

\* C8 as stated, per resource and over the whole pass: when the body fetched
\* for a resource is a stub, exactly one re-render was performed for its
\* resolved URL during the pass and its output is what is stored; when it is
\* not, no re-render was performed for that URL and the fetched body is what
\* is stored.  (Stored values are read up to the slice of line 111, and the
\* stored output only where the re-render returned one.)
C8_OneRenderPerResource ==
    (sn_pc = "returned" /\ sn_last # None /\ sn_last[1].body # None) =>
        LET r == sn_last[1]
        IN  IF ClaimIsStub(r.body[1])
            THEN /\ Count(renderLog, r.final) = 1
                 /\ r.rendered # None =>
                        DictGet(discovered, r.final) = Take(r.rendered[1], StoreLimit)
            ELSE /\ Count(renderLog, r.final) = 0
                 /\ DictGet(discovered, r.final) = Take(r.body[1], StoreLimit)

\* C8 as amended, per GET: a response whose body is a stub makes exactly one
\* render_dynamic_page call for its URL, and when that call returns, its
\* output cut to 12000 characters is stored under the URL; any other response
\* makes no such call and its body cut to 12000 characters is stored.  The
\* render calls of the pass are exactly those, in order.
C8_OneRenderPerStubFetch ==
    /\ renderLog =
          [i \in 1..Len(SelectSeq(fetchLog, LAMBDA e : e.called)) |->
              SelectSeq(fetchLog, LAMBDA e : e.called)[i].final]
    /\ (sn_last # None /\ sn_last[1].body # None) =>
        LET r == sn_last[1]
        IN  /\ fetchLog[Len(fetchLog)].called = r.called
            /\ fetchLog[Len(fetchLog)].final = r.final
            /\ IF ClaimIsStub(r.body[1])
               THEN /\ r.called
                    /\ r.rendered # None =>
                          DictGet(discovered, r.final) = Take(r.rendered[1], StoreLimit)
               ELSE /\ ~r.called
                    /\ DictGet(discovered, r.final) = Take(r.body[1], StoreLimit)

\* A stub was fetched, its re-render returned the empty text, and the empty
\* text is what the mapping holds for the URL.
C8_Witness ==
    /\ sn_last # None
    /\ sn_last[1].body = Some(B_stub)
    /\ sn_last[1].called
    /\ sn_last[1].rendered = Some(S_empty)
    /\ renderLog = <<sn_last[1].final>>
    /\ DictGet(discovered, sn_last[1].final) = S_empty

-----------------------------------------------------------------------------
(* Properties of handle_quiz, under Spec *)

\* C2: a failure of the render of the target URL (browser construction,
\* navigation, body-text extraction) does not take the run out of the
\* pipeline: it never ends, after such a failure, outside discovery and
\* dispatch.
C2_RenderFailureStillDispatches ==
    hq_renderFailed => hq_pc \notin {"raised", "left_try"}

HQ_WalkDone ==
    \/ hq_pc = "walk" /\ hq_k = Len(assets)
    \/ hq_pc \in {"prompt", "dispatched"}

ClaimQualifies(item) ==
    \/ Contains(item.key, S_csv)
    \/ \E i \in 1..Len(item.value) : i <= DigitWindow /\ IsDigit(item.value[i])

\* The cells of a body: its longest stretches a..b free of "," and "\n"
ClaimIsCellBreak(c) == c \in {",", "\n"}

ClaimCellEnd(body, a) ==
    CHOOSE b \in a..Len(body) :
        /\ \A k \in a..b : ~ClaimIsCellBreak(body[k])
        /\ (b = Len(body) \/ ClaimIsCellBreak(body[b + 1]))

ClaimCells(body) ==
    {<<a, ClaimCellEnd(body, a)>> :
        a \in {k \in 1..Len(body) :
                  /\ ~ClaimIsCellBreak(body[k])
                  /\ (k = 1 \/ ClaimIsCellBreak(body[k - 1]))}}

ClaimCellValue(body, p) == ParseFloat(Strip(SubSeq(body, p[1], p[2])))

RECURSIVE ClaimSumOver(_, _)
ClaimSumOver(body, cells) ==
    IF cells = {} THEN 0
    ELSE LET p == CHOOSE q \in cells : TRUE
         IN  ClaimCellValue(body, p)[1] + ClaimSumOver(body, cells \ {p})

\* Sum of the numeric cells, those strictly above the cutoff when it is set
ClaimSum(body, cutoff) ==
    ClaimSumOver(body,
        {p \in ClaimCells(body) :
            /\ ClaimCellValue(body, p) # None
            /\ (cutoff = None \/ ClaimCellValue(body, p)[1] > cutoff[1])})

\* C9: after the aggregation walk, NumericResult is unset when no resource
\* qualifies, and otherwise is the sum, over the numeric cells (strictly
\* above CutoffValue when it is set), of the body of the last qualifying
\* resource in insertion order.
C9_LastQualifyingWins ==
    HQ_WalkDone =>
        LET Q == {i \in 1..Len(assets) : ClaimQualifies(assets[i])}
        IN  IF Q = {} THEN precomputed = None
            ELSE LET last == CHOOSE i \in Q : \A j \in Q : j <= i
                 IN  precomputed = Some(ClaimSum(assets[last].value, cutoff_val))

\* The walk is over two qualifying resources whose sums above a set cutoff
\* differ and are not 0, and the result is the second one's.
C9_Witness ==
    /\ hq_pc = "prompt"
    /\ Len(assets) = 2
    /\ cutoff_val # None
    /\ ClaimQualifies(assets[1])
    /\ ClaimQualifies(assets[2])
    /\ ClaimSum(assets[1].value, cutoff_val) # ClaimSum(assets[2].value, cutoff_val)
    /\ ClaimSum(assets[2].value, cutoff_val) # ClaimSum(assets[2].value, None)
    /\ ClaimSum(assets[2].value, cutoff_val) # 0
    /\ precomputed = Some(ClaimSum(assets[2].value, cutoff_val))

\* "cutoff" in any letter case, one or more colons or spaces, digits, at i
ClaimCutoffAt(t, i) ==
    /\ i + 5 <= Len(t)
    /\ Lower(SubSeq(t, i, i + 5)) = W_cutoff
    /\ SepRun(t, i + 6) >= 1
    /\ DigitRun(t, i + 6 + SepRun(t, i + 6)) >= 1

ClaimCutoff(t) ==
    IF \E i \in 1..Len(t) : ClaimCutoffAt(t, i)
    THEN LET i == CHOOSE k \in 1..Len(t) :
                     ClaimCutoffAt(t, k) /\ \A j \in 1..(k - 1) : ~ClaimCutoffAt(t, j)
             d == i + 6 + SepRun(t, i + 6)
         IN  Some(IntOf(SubSeq(t, d, d + DigitRun(t, d) - 1)))
    ELSE None

\* C10: CutoffValue is the integer of the first occurrence in the page text
\* of "cutoff" in any letter case followed by colons/spaces and digits, and
\* is unset exactly when there is none.
C10_AnyLetterCase ==
    hq_pc \in {"walk", "prompt", "dispatched"} => cutoff_val = ClaimCutoff(page_text)

====
